---- MODULE Spec2Model ----
(***************************************************************************)
(* MRzero-Core, sequence.py: Pulse, Repetition, Sequence and chain.        *)
(*                                                                         *)
(* Tensors live in a heap (address -> contents) so that aliasing and the   *)
(* in-place update of shift_contrasts are visible.  A Repetition is a      *)
(* record of tensor addresses, a Sequence a list of Repetitions.  A        *)
(* 1-D tensor is a sequence of integers, gradm a sequence of 3-tuples, a   *)
(* k-space row a 4-tuple.  Python exceptions are the value Raise(e).       *)
(* CHOOSE y \in {F(x) : x \in {e}} : TRUE is F(e) with e evaluated once, as  *)
(* Python evaluates the right-hand side of an assignment once.             *)
(* Tags and offsets stay far below 2^31, so int32 wrap-around of           *)
(* adc_usage is out of the model's range.                                  *)
(***************************************************************************)
EXTENDS Integers, Sequences, FiniteSets, TLC

VARIABLES
    heap,             \* tensor storage: heap[a] is the contents at address a
    seqs,             \* the caller's Sequence objects, each a list of Repetitions
    log,              \* the calls made since the last construction step
    ret,              \* what the last call returned (or raised)
    snap,             \* AllValues when the first call of log was made
    pc,               \* chain: "idle", "loop", "done" or "error"
    sequences,        \* chain: indices (into seqs) of the *sequences argument
    oneshot,          \* chain: the oneshot argument
    combined,         \* chain: the local `combined`
    contrast_offset,  \* chain: the local `contrast_offset`
    idx               \* chain: how many of `sequences` the for loop has consumed

vars == <<heap, seqs, log, ret, snap, pc, sequences, oneshot, combined,
          contrast_offset, idx>>

chainVars == <<pc, sequences, oneshot, combined, contrast_offset, idx>>

----------------------------------------------------------------------------
(* Bounds of the model *)

\* query specification: total number of events of the sequence
MaxEvents == 3
\* trajectory specification: total number of events of the sequence
MaxTrajEvents == 4
\* shift specification: total number of events, and number of shift calls
MaxShiftEvents == 2
MaxShifts == 2
\* chain specification: number of Sequence objects and total number of events
MaxChainSeqs == 3
MaxChainEvents == 3

\* events in the Sequence whose trajectory is compared with the reference
MaxFoldEvents == 3

\* constructor and new_rep calls made on the Sequence that is being built
MaxBuildCalls == 3

\* largest event count asked of a constructor or of new_rep
MaxBuildEvents == 2

\* adc_usage tags the caller writes: negative, zero and two contrasts
Tags == {-1, 0, 1, 2}
\* offsets the caller passes to shift_contrasts
Offsets == {-2, -1, 0, 1, 2}
\* contrasts the caller asks a mask for
Contrasts == {1, 2}
\* the events (gradient moment, duration) the trajectory specification draws
Deltas == {[gradm |-> <<1, 0, 0>>, time |-> 1],
           [gradm |-> <<0, -1, 2>>, time |-> 2]}

----------------------------------------------------------------------------
(* Values *)

PulseUsage == {"UNDEF", "EXCIT", "REFOC", "STORE", "FATSAT"}

Raise(e) == [ok |-> FALSE, err |-> e]
Return(v) == [ok |-> TRUE, val |-> v]

\* a pulse field that is a Python float / a tensor at address a
Float(v) == [tensor |-> FALSE, v |-> v]
Tensor(a) == [tensor |-> TRUE, v |-> a]

Zeros4 == <<0, 0, 0, 0>>
VAdd(a, b) == [i \in 1..4 |-> a[i] + b[i]]
VNeg(a) == [i \in 1..4 |-> 0 - a[i]]

RECURSIVE Cat(_)
\* torch.cat / list concatenation of a list of lists
Cat(parts) == IF parts = <<>> THEN <<>> ELSE Head(parts) \o Cat(Tail(parts))

RECURSIVE MaskSelectFrom(_, _, _)
MaskSelectFrom(rows, mask, i) ==
    IF i > Len(rows) THEN <<>>
    ELSE (IF mask[i] THEN <<rows[i]>> ELSE <<>>) \o MaskSelectFrom(rows, mask, i + 1)

\* rows[mask]: boolean-mask indexing keeps the rows whose mask entry is true
MaskSelect(rows, mask) == MaskSelectFrom(rows, mask, 1)

RECURSIVE Sorted(_)
\* sorted(...) of a finite set of integers, ascending
Sorted(S) ==
    IF S = {} THEN <<>>
    ELSE LET m == CHOOSE x \in S : \A y \in S : x <= y
         IN <<m>> \o Sorted(S \ {m})

Range(s) == {s[i] : i \in 1..Len(s)}

\* max(list): ValueError on an empty list
Max(s) ==
    IF s = <<>> THEN Raise("ValueError")
    ELSE Return(CHOOSE x \in Range(s) : \A y \in Range(s) : y <= x)

----------------------------------------------------------------------------
(* Pulse *)

Pulse(usage, angle, phase, selective) ==
    [usage |-> usage, angle |-> angle, phase |-> phase, selective |-> selective]

\* Pulse.zero(): angle and phase are the Python floats 0.0
PulseZero == Pulse("UNDEF", Float(0), Float(0), TRUE)

\* Pulse.clone(): self.angle.clone() and self.phase.clone(); a float has no
\* clone attribute.  The clones are allocated at the end of the heap.
PulseClone(h, p) ==
    IF ~p.angle.tensor \/ ~p.phase.tensor THEN Raise("AttributeError")
    ELSE LET h1 == Append(h, h[p.angle.v])
             h2 == Append(h1, h1[p.phase.v])
         IN Return([heap |-> h2,
                    pulse |-> Pulse(p.usage, Tensor(Len(h1)), Tensor(Len(h2)),
                                    p.selective)])

----------------------------------------------------------------------------
(* Repetition *)

\* gradm.shape != [n, 3]
GradmShapeDiffers(g, n) == Len(g) # n \/ \E j \in 1..Len(g) : Len(g[j]) # 3

\* mutant of RepetitionInit: an empty event_time is let through
RepetitionInitAllowEmpty(h, pulse, event_time, gradm, adc_phase, adc_usage) ==
    LET n == Len(h[event_time])
    IN IF GradmShapeDiffers(h[gradm], n) THEN Raise("ValueError")
       ELSE IF Len(h[adc_phase]) # n THEN Raise("ValueError")
       ELSE IF Len(h[adc_usage]) # n THEN Raise("ValueError")
       ELSE Return([pulse |-> pulse, event_count |-> n,
                    event_time |-> event_time, gradm |-> gradm,
                    adc_phase |-> adc_phase, adc_usage |-> adc_usage])

\* Repetition.__init__ on tensors that already live in the heap
RepetitionInit(h, pulse, event_time, gradm, adc_phase, adc_usage) ==
    LET n == Len(h[event_time])
    IN IF n = 0 THEN Raise("ValueError")
       ELSE IF GradmShapeDiffers(h[gradm], n) THEN Raise("ValueError")
       ELSE IF Len(h[adc_phase]) # n THEN Raise("ValueError")
       ELSE IF Len(h[adc_usage]) # n THEN Raise("ValueError")
       ELSE Return([pulse |-> pulse, event_count |-> n,
                    event_time |-> event_time, gradm |-> gradm,
                    adc_phase |-> adc_phase, adc_usage |-> adc_usage])

\* the four timeline tensors of a new repetition, allocated in this order
AllocTimelines(h, times, grads, phases, tags) ==
    h \o <<times, grads, phases, tags>>

\* Repetition.zero(event_count)
RepetitionZero(h, event_count) ==
    IF event_count < 0 THEN Raise("RuntimeError")
    ELSE LET z == [i \in 1..event_count |-> 0]
             g == [i \in 1..event_count |-> <<0, 0, 0>>]
             h1 == AllocTimelines(h, z, g, z, z)
             r == RepetitionInit(h1, PulseZero, Len(h) + 1, Len(h) + 2,
                                 Len(h) + 3, Len(h) + 4)
         IN IF r.ok THEN Return([heap |-> h1, rep |-> r.val]) ELSE r

\* mutant of RepetitionCloneWith: event_time, gradm and adc_phase are cloned,
\* adc_usage is passed on as it is (the clone and the original share it)
RepetitionCloneSharedUsage(rep, p) ==
    IF ~p.ok THEN p
    ELSE LET h0 == p.val.heap
             h1 == h0 \o <<h0[rep.event_time], h0[rep.gradm], h0[rep.adc_phase]>>
             r == RepetitionInit(h1, p.val.pulse, Len(h0) + 1, Len(h0) + 2,
                                 Len(h0) + 3, rep.adc_usage)
         IN IF r.ok THEN Return([heap |-> h1, rep |-> r.val]) ELSE r

\* Repetition.clone() once the pulse clone p is made
RepetitionCloneWith(rep, p) ==
    IF ~p.ok THEN p
    ELSE LET h0 == p.val.heap
             h1 == AllocTimelines(h0, h0[rep.event_time], h0[rep.gradm],
                                  h0[rep.adc_phase], h0[rep.adc_usage])
             r == RepetitionInit(h1, p.val.pulse, Len(h0) + 1, Len(h0) + 2,
                                 Len(h0) + 3, Len(h0) + 4)
         IN IF r.ok THEN Return([heap |-> h1, rep |-> r.val]) ELSE r

\* Repetition.clone()
RepetitionClone(h, rep) ==
    CHOOSE y \in {RepetitionCloneWith(rep, p) : p \in {PulseClone(h, rep.pulse)}} : TRUE

\* Repetition.get_contrasts(): sorted(torch.unique(self.adc_usage).tolist())
RepGetContrasts(h, rep) == Sorted(Range(h[rep.adc_usage]))

\* Repetition.shift_contrasts(offset): self.adc_usage[self.adc_usage > 0] += offset
RepShiftContrasts(h, rep, offset) ==
    [h EXCEPT ![rep.adc_usage] =
        [i \in 1..Len(@) |-> IF @[i] > 0 THEN @[i] + offset ELSE @[i]]]

----------------------------------------------------------------------------
(* Sequence *)

RECURSIVE SequenceCloneFrom(_, _, _, _)
SequenceCloneFrom(h, self, i, acc) ==
    IF i > Len(self) THEN Return([heap |-> h, seq |-> acc])
    ELSE CHOOSE y \in {IF ~r.ok THEN r
                       ELSE SequenceCloneFrom(r.val.heap, self, i + 1,
                                              Append(acc, r.val.rep))
                       : r \in {RepetitionClone(h, self[i])}} : TRUE

\* Sequence.clone(): Sequence(rep.clone() for rep in self)
SequenceClone(h, self) == SequenceCloneFrom(h, self, 1, <<>>)

\* Sequence.new_rep(event_count): the new heap and the sequence with the zero
\* repetition appended; nothing is appended when Repetition.zero raises
SequenceNewRep(h, self, event_count) ==
    LET r == RepetitionZero(h, event_count)
    IN IF ~r.ok THEN r
       ELSE Return([heap |-> r.val.heap, seq |-> Append(self, r.val.rep)])

\* torch.cat([rep.gradm, rep.event_time[:, None]], 1): one 4-vector per event
Deltas4(h, rep) ==
    [j \in 1..rep.event_count |->
        <<h[rep.gradm][j][1], h[rep.gradm][j][2], h[rep.gradm][j][3],
          h[rep.event_time][j]>>]

RECURSIVE CumSumExclusive(_, _)
\* mutant of CumSum: the running sum leaves out the event itself (exclusive)
CumSumExclusive(rows, j) ==
    IF j <= 1 THEN Zeros4 ELSE VAdd(CumSumExclusive(rows, j - 1), rows[j - 1])

RECURSIVE CumSum(_, _)
\* entry j of torch.cumsum(rows, dim=0): the sum of rows 1..j
CumSum(rows, j) == IF j = 0 THEN Zeros4 ELSE VAdd(CumSum(rows, j - 1), rows[j])

\* mutant of FullKspaceBody: STORE snapshots the position the repetition ends
\* at instead of the position carried into it
FullKspaceBodyStoreAtEnd(h, rep, st) ==
    LET k_pos == IF rep.pulse.usage = "EXCIT" THEN st.stored
                 ELSE IF rep.pulse.usage = "REFOC" THEN VNeg(st.k_pos)
                 ELSE st.k_pos
        d == Deltas4(h, rep)
        rep_traj == [j \in 1..rep.event_count |-> VAdd(k_pos, CumSum(d, j))]
    IN [k_pos |-> rep_traj[rep.event_count],
        stored |-> IF rep.pulse.usage = "STORE" THEN rep_traj[rep.event_count]
                   ELSE st.stored,
        trajectory |-> Append(st.trajectory, rep_traj)]

\* one pass of the for loop of get_full_kspace over the loop state
\* st = [k_pos, stored, trajectory]
FullKspaceBody(h, rep, st) ==
    LET k_pos == IF rep.pulse.usage = "EXCIT" THEN st.stored
                 ELSE IF rep.pulse.usage = "REFOC" THEN VNeg(st.k_pos)
                 ELSE st.k_pos
        stored == IF rep.pulse.usage = "STORE" THEN st.k_pos ELSE st.stored
        d == Deltas4(h, rep)
        rep_traj == [j \in 1..rep.event_count |-> VAdd(k_pos, CumSum(d, j))]
    IN [k_pos |-> rep_traj[rep.event_count], stored |-> stored,
        trajectory |-> Append(st.trajectory, rep_traj)]

RECURSIVE FullKspaceLoop(_, _, _, _)
FullKspaceLoop(h, self, i, st) ==
    IF i > Len(self) THEN st
    ELSE FullKspaceLoop(h, self, i + 1, FullKspaceBody(h, self[i], st))

\* Sequence.get_full_kspace(); self.device is self[0].device
get_full_kspace(h, self) ==
    IF self = <<>> THEN Raise("IndexError")
    ELSE Return(FullKspaceLoop(h, self, 1,
            [k_pos |-> Zeros4, stored |-> Zeros4, trajectory |-> <<>>]).trajectory)

\* mutant of MeasuredMask: the filter of get_contrast_mask, adc_usage != 0
MeasuredMaskNonzero(h, rep) == [j \in 1..rep.event_count |-> h[rep.adc_usage][j] # 0]

\* rep.adc_usage > 0 as a boolean tensor
MeasuredMask(h, rep) == [j \in 1..rep.event_count |-> h[rep.adc_usage][j] > 0]

\* Sequence.get_kspace()
get_kspace(h, self) ==
    LET full == get_full_kspace(h, self)
    IN IF ~full.ok THEN full
       ELSE Return(Cat([r \in 1..Len(self) |->
                MaskSelect(full.val[r], MeasuredMask(h, self[r]))]))

\* rep.adc_usage[rep.adc_usage != 0] == contrast
RepContrastMask(h, rep, contrast) ==
    LET u == h[rep.adc_usage]
        kept == MaskSelect(u, [j \in 1..Len(u) |-> u[j] # 0])
    IN [j \in 1..Len(kept) |-> kept[j] = contrast]

\* Sequence.get_contrast_mask(contrast); torch.cat of an empty list raises
get_contrast_mask(h, self, contrast) ==
    IF self = <<>> THEN Raise("RuntimeError")
    ELSE Return(Cat([r \in 1..Len(self) |-> RepContrastMask(h, self[r], contrast)]))

\* Sequence.get_contrasts()
get_contrasts(h, self) ==
    LET tmp == Cat([r \in 1..Len(self) |-> RepGetContrasts(h, self[r])])
    IN Sorted(Range(tmp))

RECURSIVE SeqShiftFrom(_, _, _, _)
SeqShiftFrom(h, self, i, offset) ==
    IF i > Len(self) THEN h
    ELSE CHOOSE y \in {SeqShiftFrom(h1, self, i + 1, offset)
                       : h1 \in {RepShiftContrasts(h, self[i], offset)}} : TRUE

\* Sequence.shift_contrasts(offset): the heap after the loop
SeqShiftContrasts(h, self, offset) == SeqShiftFrom(h, self, 1, offset)

----------------------------------------------------------------------------
(* What a caller does with the public interface *)

\* the only Sequence of the query, trajectory and shift specifications
Self == seqs[1]

LastCall == log[Len(log)]
Called(name) == log # <<>> /\ LastCall.name = name

RECURSIVE EventCount(_)
\* number of events of a Sequence
EventCount(self) ==
    IF self = <<>> THEN 0 ELSE Head(self).event_count + EventCount(Tail(self))

RECURSIVE EventCountAll(_)
EventCountAll(ss) ==
    IF ss = <<>> THEN 0 ELSE EventCount(Head(ss)) + EventCountAll(Tail(ss))

\* number of events of all the caller's Sequences
TotalEvents == EventCountAll(seqs)

\* contents of every field of every repetition of a Sequence
SeqValue(h, self) ==
    [r \in 1..Len(self) |->
        [usage |-> self[r].pulse.usage,
         selective |-> self[r].pulse.selective,
         angle |-> IF self[r].pulse.angle.tensor THEN h[self[r].pulse.angle.v]
                   ELSE <<self[r].pulse.angle.v>>,
         phase |-> IF self[r].pulse.phase.tensor THEN h[self[r].pulse.phase.v]
                   ELSE <<self[r].pulse.phase.v>>,
         event_time |-> h[self[r].event_time],
         gradm |-> h[self[r].gradm],
         adc_phase |-> h[self[r].adc_phase],
         adc_usage |-> h[self[r].adc_usage]]]

\* contents of every repetition of every Sequence of the caller
AllValues(h, ss) == [s \in 1..Len(ss) |-> SeqValue(h, ss[s])]

\* seqs[s].append(Repetition(Pulse(usage, angle, phase, True), event_time,
\* gradm, adc_phase, adc_usage)) with freshly created tensors
AppendRepetition(s, usage, events, tags) ==
    /\ pc = "idle"
    /\ s \in 1..Len(seqs)
    /\ LET n == Len(events)
           h1 == heap \o << <<0>>, <<0>> >>
           h2 == AllocTimelines(h1, [j \in 1..n |-> events[j].time],
                                [j \in 1..n |-> events[j].gradm],
                                [j \in 1..n |-> 0], tags)
           r == RepetitionInit(h2, Pulse(usage, Tensor(Len(heap) + 1),
                                         Tensor(Len(heap) + 2), TRUE),
                               Len(h1) + 1, Len(h1) + 2, Len(h1) + 3, Len(h1) + 4)
       IN /\ r.ok
          /\ heap' = h2
          /\ seqs' = [seqs EXCEPT ![s] = Append(@, r.val)]
    /\ log' = <<>>
    /\ ret' = Return(<<>>)
    /\ snap' = <<>>
    /\ UNCHANGED chainVars

\* the unit event of the query specification: gradient (1,0,0) for one second
UnitEvent == [gradm |-> <<1, 0, 0>>, time |-> 1]

\* the query specification's construction step: the only Sequence grows by a
\* repetition of n events with any tags, behind an UNDEF or EXCIT pulse
Build ==
    \E n \in 1..(MaxEvents - TotalEvents), usage \in {"UNDEF", "EXCIT"} :
        \E tags \in [1..n -> Tags] :
            AppendRepetition(1, usage, [j \in 1..n |-> UnitEvent], tags)

Call(name, arg, result) ==
    /\ pc = "idle"
    /\ log' = <<[name |-> name, arg |-> arg]>>
    /\ ret' = result
    /\ UNCHANGED <<heap, seqs, snap, chainVars>>

CallGetFullKspace == Call("get_full_kspace", 0, get_full_kspace(heap, seqs[1]))

CallGetKspace == Call("get_kspace", 0, get_kspace(heap, seqs[1]))

CallGetContrastMask ==
    \E c \in Contrasts : Call("get_contrast_mask", c, get_contrast_mask(heap, seqs[1], c))

CallGetContrasts == Call("get_contrasts", 0, Return(get_contrasts(heap, seqs[1])))

\* one empty Sequence(), nothing called yet
Init ==
    /\ heap = <<>>
    /\ seqs = << <<>> >>
    /\ log = <<>>
    /\ ret = Return(<<>>)
    /\ snap = <<>>
    /\ pc = "idle"
    /\ sequences = <<>>
    /\ oneshot = FALSE
    /\ combined = <<>>
    /\ contrast_offset = 0
    /\ idx = 0

Next ==
    \/ Build
    \/ CallGetFullKspace
    \/ CallGetKspace
    \/ CallGetContrastMask
    \/ CallGetContrasts

Spec == Init /\ [][Next]_vars

----------------------------------------------------------------------------
(* Claims about the queries, checked under Spec *)

\* the measured events of a Sequence: (repetition, event) with adc_usage > 0
MeasuredEvents(h, self) ==
    UNION {{<<r, j>> : j \in {k \in 1..self[r].event_count : h[self[r].adc_usage][k] > 0}}
           : r \in 1..Len(self)}

\* temporal order: repetitions in sequence order, events in order inside one
Earlier(p, q) == p[1] < q[1] \/ (p[1] = q[1] /\ p[2] < q[2])

\* position of measured event p among the measured events, counted from 1
Rank(h, self, p) == 1 + Cardinality({q \in MeasuredEvents(h, self) : Earlier(q, p)})

\* C2: for a Sequence with at least one repetition get_kspace() returns one
\* row per event with adc_usage > 0, and the i-th row is the get_full_kspace()
\* entry of the i-th such event in temporal order.
C2_KspaceRows ==
    (Called("get_kspace") /\ Self # <<>>) =>
        /\ ret.ok
        /\ Len(ret.val) = Cardinality(MeasuredEvents(heap, Self))
        /\ \A p \in MeasuredEvents(heap, Self) :
              ret.val[Rank(heap, Self, p)] = get_full_kspace(heap, Self).val[p[1]][p[2]]

\* get_kspace() was called on two repetitions that both hold measured events,
\* the first one behind an event tagged -1
C2_Witness ==
    /\ Called("get_kspace")
    /\ Len(Self) >= 2
    /\ ret.ok
    /\ Len(ret.val) >= 2
    /\ heap[Self[1].adc_usage][1] = -1
    /\ \E p \in MeasuredEvents(heap, Self) : p[1] = 1
    /\ \E p \in MeasuredEvents(heap, Self) : p[1] = 2

\* C1: get_contrast_mask(c) has as many entries as get_kspace() has rows, and
\* its i-th entry says whether the i-th measured event has adc_usage = c.
C1_MaskIndexesKspace ==
    (Called("get_contrast_mask") /\ Self # <<>>) =>
        /\ ret.ok
        /\ Len(ret.val) = Len(get_kspace(heap, Self).val)
        /\ \A p \in MeasuredEvents(heap, Self) :
              ret.val[Rank(heap, Self, p)]
                  = (heap[Self[p[1]].adc_usage][p[2]] = LastCall.arg)

\* C10: Sequence.get_contrasts() is strictly ascending and holds exactly the
\* positive adc_usage values of the events of the Sequence.
C10_ContrastsArePositiveTags ==
    Called("get_contrasts") =>
        /\ \A i \in 1..(Len(ret.val) - 1) : ret.val[i] < ret.val[i + 1]
        /\ Range(ret.val) =
              {v \in UNION {Range(heap[Self[r].adc_usage]) : r \in 1..Len(Self)} : v > 0}

----------------------------------------------------------------------------
(* The trajectory specification: pulses and gradients vary, every event is   *)
(* measured as contrast 1                                                    *)

BuildTraj ==
    \E n \in 1..(MaxTrajEvents - TotalEvents), usage \in PulseUsage :
        \E events \in [1..n -> Deltas] :
            AppendRepetition(1, usage, events, [j \in 1..n |-> 1])

NextTraj ==
    \/ BuildTraj
    \/ CallGetFullKspace

SpecTraj == Init /\ [][NextTraj]_vars

\* the Sequence is [rep0 (EXCIT), rep1 (STORE), rep2 (EXCIT)]
ExcitStoreExcit ==
    /\ Len(Self) = 3
    /\ Self[1].pulse.usage = "EXCIT"
    /\ Self[2].pulse.usage = "STORE"
    /\ Self[3].pulse.usage = "EXCIT"

\* the offset added to the cumulative sums of repetition r in the returned
\* trajectory: its first entry less its first delta
StartOf(r) == VAdd(ret.val[r][1], VNeg(Deltas4(heap, Self[r])[1]))

\* the last entry of repetition r of the returned trajectory
EndOf(r) == ret.val[r][Self[r].event_count]

\* C6 as stated: rep2 starts at rep1's final trajectory position.
C6_StartsAtStoreRepEnd ==
    (Called("get_full_kspace") /\ ExcitStoreExcit) => StartOf(3) = EndOf(2)

\* C6 as amended: in [rep0 (EXCIT), rep1 (STORE), rep2 (EXCIT)] rep2 starts at
\* the position carried into rep1, which is rep0's final trajectory position:
\* STORE snapshots the position at its pulse, before rep1's events.
C6_StartsAtStorePulse ==
    (Called("get_full_kspace") /\ ExcitStoreExcit) =>
        /\ ret.ok
        /\ StartOf(3) = EndOf(1)
        /\ StartOf(2) = EndOf(1)

\* get_full_kspace() returned for an EXCIT, STORE, EXCIT sequence whose rep0
\* and rep1 both move the position
C6_Witness ==
    /\ Called("get_full_kspace")
    /\ ExcitStoreExcit
    /\ ret.ok
    /\ EndOf(1) # Zeros4
    /\ EndOf(2) # EndOf(1)
    /\ Self[2].event_count = 2

----------------------------------------------------------------------------
(* The shift specification: a Sequence is built, then shift_contrasts is     *)
(* called on it or on its repetitions                                        *)

BuildShift ==
    /\ log = <<>>
    /\ \E n \in 1..(MaxShiftEvents - TotalEvents) :
          \E tags \in [1..n -> Tags] :
              AppendRepetition(1, "UNDEF", [j \in 1..n |-> UnitEvent], tags)

\* a call that updates tensors in place and returns None
Mutate(name, arg, h) ==
    /\ heap' = h
    /\ log' = Append(log, [name |-> name, arg |-> arg])
    /\ snap' = IF log = <<>> THEN AllValues(heap, seqs) ELSE snap
    /\ ret' = Return(<<>>)
    /\ UNCHANGED <<seqs, chainVars>>

\* Self[r].shift_contrasts(offset)
CallRepShiftContrasts ==
    /\ pc = "idle"
    /\ Len(log) < MaxShifts
    /\ \E r \in 1..Len(Self), offset \in Offsets :
          Mutate("Repetition.shift_contrasts", <<r, offset>>,
                 RepShiftContrasts(heap, Self[r], offset))

\* Self.shift_contrasts(offset)
CallSeqShiftContrasts ==
    /\ pc = "idle"
    /\ Len(log) < MaxShifts
    /\ \E offset \in Offsets :
          Mutate("Sequence.shift_contrasts", <<0, offset>>,
                 SeqShiftContrasts(heap, Self, offset))

NextShift ==
    \/ BuildShift
    \/ CallRepShiftContrasts
    \/ CallSeqShiftContrasts

SpecShift == Init /\ [][NextShift]_vars

\* adc_usage of repetition r of the only Sequence, now and before the calls
UsageNow(r) == heap[Self[r].adc_usage]
UsageBefore(r) == snap[1][r].adc_usage

\* what one Repetition.shift_contrasts(offset) makes of the tensor u
ShiftedOnce(u, offset) == RepShiftContrasts(<<u>>, [adc_usage |-> 1], offset)[1]

\* C7: Repetition.shift_contrasts(0) changes nothing, and shift_contrasts(a)
\* then shift_contrasts(b) on one Repetition leaves every element that was
\* > 0 before with the value a single shift_contrasts(a + b) gives it.
C7_ShiftComposes ==
    /\ (Len(log) = 1 /\ log[1].name = "Repetition.shift_contrasts" /\ log[1].arg[2] = 0)
          => UsageNow(log[1].arg[1]) = UsageBefore(log[1].arg[1])
    /\ (/\ Len(log) = 2
        /\ log[1].name = "Repetition.shift_contrasts"
        /\ log[2].name = "Repetition.shift_contrasts"
        /\ log[1].arg[1] = log[2].arg[1])
          => LET r == log[1].arg[1]
                 once == ShiftedOnce(UsageBefore(r), log[1].arg[2] + log[2].arg[2])
             IN \A j \in 1..Len(once) : UsageBefore(r)[j] > 0 => UsageNow(r)[j] = once[j]

\* C8: after any shift_contrasts calls the events with adc_usage > 0 are the
\* events that had adc_usage > 0 before the calls.
C8_MeasuredUnchanged ==
    log # <<>> =>
        \A r \in 1..Len(Self) : \A j \in 1..Self[r].event_count :
            (UsageNow(r)[j] > 0) <=> (UsageBefore(r)[j] > 0)

----------------------------------------------------------------------------
(* chain *)

\* chain's loop body once temp is cloned and shifted: h is the heap after
\* temp.shift_contrasts(contrast_offset), m is max(temp.get_contrasts()),
\* which chain evaluates (and which may raise) only when oneshot is false
ChainBodyOffset(h, temp, offset, one, m) ==
    IF one THEN Return([heap |-> h, temp |-> temp, contrast_offset |-> offset])
    ELSE IF ~m.ok THEN m
    ELSE Return([heap |-> h, temp |-> temp, contrast_offset |-> m.val])

\* chain's loop body once temp = seq.clone() is made (c, which may have raised)
ChainBodyWith(c, offset, one) ==
    IF ~c.ok THEN c
    ELSE CHOOSE y \in
            {ChainBodyOffset(h1, c.val.seq, offset, one,
                             Max(get_contrasts(h1, c.val.seq)))
             : h1 \in {SeqShiftContrasts(c.val.heap, c.val.seq, offset)}} : TRUE

\* one pass of the for loop of chain: clone, shift, new offset
ChainBody(h, seq, offset, one) ==
    CHOOSE y \in {ChainBodyWith(c, offset, one) : c \in {SequenceClone(h, seq)}} : TRUE

----------------------------------------------------------------------------
(* The chain specification: the caller builds Sequences, the last one by     *)
(* Repetition(...) or new_rep, then chains them all                          *)

\* nothing but construction has happened so far
Constructing == pc = "idle" /\ (log = <<>> \/ Called("new_rep"))

\* Sequence()
NewSequence ==
    /\ Constructing
    /\ Len(seqs) < MaxChainSeqs
    /\ seqs' = Append(seqs, <<>>)
    /\ log' = <<>>
    /\ ret' = Return(<<>>)
    /\ UNCHANGED <<heap, snap, chainVars>>

BuildChain ==
    /\ Constructing
    /\ \E n \in 1..(MaxChainEvents - TotalEvents) :
          \E tags \in [1..n -> Tags] :
              AppendRepetition(Len(seqs), "EXCIT", [j \in 1..n |-> UnitEvent], tags)

\* seqs[-1].new_rep(event_count)
CallNewRep ==
    /\ Constructing
    /\ \E event_count \in 0..(MaxChainEvents - TotalEvents) :
          \E r \in {SequenceNewRep(heap, seqs[Len(seqs)], event_count)} :
             IF r.ok
             THEN /\ heap' = r.val.heap
                  /\ seqs' = [seqs EXCEPT ![Len(seqs)] = r.val.seq]
                  /\ log' = <<>>
                  /\ ret' = Return(<<>>)
             ELSE /\ UNCHANGED <<heap, seqs>>
                  /\ log' = <<[name |-> "new_rep", arg |-> event_count]>>
                  /\ ret' = r
    /\ UNCHANGED <<snap, chainVars>>

\* seqs[i].clone()
CallClone ==
    /\ Constructing
    /\ \E i \in 1..Len(seqs) :
          \E c \in {SequenceClone(heap, seqs[i])} :
             /\ log' = <<[name |-> "clone", arg |-> i]>>
             /\ IF c.ok THEN heap' = c.val.heap /\ ret' = Return(c.val.seq)
                ELSE heap' = heap /\ ret' = c
    /\ snap' = AllValues(heap, seqs)
    /\ UNCHANGED <<seqs, chainVars>>

\* shift_contrasts(offset) on the Sequence that was cloned or on its clone
CallShiftAfterClone ==
    /\ pc = "idle"
    /\ Len(log) = 1
    /\ log[1].name = "clone"
    /\ ret.ok
    /\ \E offset \in Offsets :
          \/ /\ heap' = SeqShiftContrasts(heap, seqs[log[1].arg], offset)
             /\ log' = Append(log, [name |-> "original.shift_contrasts", arg |-> offset])
          \/ /\ heap' = SeqShiftContrasts(heap, ret.val, offset)
             /\ log' = Append(log, [name |-> "clone.shift_contrasts", arg |-> offset])
    /\ UNCHANGED <<seqs, ret, snap, chainVars>>

\* chain(*seqs, oneshot=one) is entered: combined = Sequence(), contrast_offset = 0
CallChain ==
    /\ Constructing
    /\ \E one \in BOOLEAN :
          /\ oneshot' = one
          /\ log' = <<[name |-> "chain", arg |-> one]>>
    /\ pc' = "loop"
    /\ sequences' = [i \in 1..Len(seqs) |-> i]
    /\ combined' = <<>>
    /\ contrast_offset' = 0
    /\ idx' = 0
    /\ ret' = Return(<<>>)
    /\ snap' = AllValues(heap, seqs)
    /\ UNCHANGED <<heap, seqs>>

\* one iteration of `for seq in sequences`
ChainStep ==
    /\ pc = "loop"
    /\ idx < Len(sequences)
    /\ \E b \in {ChainBody(heap, seqs[sequences[idx + 1]], contrast_offset, oneshot)} :
          IF b.ok
          THEN /\ heap' = b.val.heap
               /\ contrast_offset' = b.val.contrast_offset
               /\ combined' = combined \o b.val.temp
               /\ idx' = idx + 1
               /\ UNCHANGED <<pc, ret>>
          ELSE /\ pc' = "error"
               /\ ret' = b
               /\ UNCHANGED <<heap, contrast_offset, combined, idx>>
    /\ UNCHANGED <<seqs, log, snap, sequences, oneshot>>

\* return combined
ChainReturn ==
    /\ pc = "loop"
    /\ idx = Len(sequences)
    /\ pc' = "done"
    /\ ret' = Return(combined)
    /\ UNCHANGED <<heap, seqs, log, snap, sequences, oneshot, combined,
                   contrast_offset, idx>>

\* shift_contrasts(offset) on the Sequence chain returned
CallShiftChained ==
    /\ pc = "done"
    /\ Len(log) = 1
    /\ \E offset \in Offsets :
          /\ heap' = SeqShiftContrasts(heap, ret.val, offset)
          /\ log' = Append(log, [name |-> "chained.shift_contrasts", arg |-> offset])
    /\ UNCHANGED <<seqs, ret, snap, chainVars>>

NextChain ==
    \/ NewSequence
    \/ BuildChain
    \/ CallNewRep
    \/ CallChain
    \/ ChainStep
    \/ ChainReturn
    \/ CallShiftChained

SpecChain == Init /\ [][NextChain]_vars

\* the clone specification: the same construction, then clone and shifts
NextClone ==
    \/ NewSequence
    \/ BuildChain
    \/ CallNewRep
    \/ CallClone
    \/ CallShiftAfterClone

SpecClone == Init /\ [][NextClone]_vars

----------------------------------------------------------------------------
(* Claims about chain, checked under SpecChain *)

\* chain(...) was called and has just returned (nothing was called since)
ChainReturned == pc = "done" /\ Len(log) = 1

RECURSIVE RepsBefore(_)
\* number of repetitions the first k inputs contributed to combined
RepsBefore(k) == IF k = 0 THEN 0 ELSE RepsBefore(k - 1) + Len(seqs[sequences[k]])

\* the positive adc_usage tags of the repetitions input k contributed
ContributedTags(k) ==
    {v \in UNION {Range(heap[combined[r].adc_usage])
                  : r \in (RepsBefore(k - 1) + 1)..RepsBefore(k)} : v > 0}

\* C3: after chain(s1, ..., sn) with oneshot false every positive tag of the
\* repetitions contributed by a later input is greater than every positive
\* tag of the repetitions contributed by an earlier input.
C3_NoCollisions ==
    (ChainReturned /\ ~oneshot) =>
        \A k1 \in 1..Len(sequences), k2 \in 1..Len(sequences) :
            k1 < k2 => \A t1 \in ContributedTags(k1), t2 \in ContributedTags(k2) : t1 < t2

\* C4: with oneshot false, a loop pass over an input without an event with
\* adc_usage > 0 does not fail and leaves contrast_offset as it was.
C4_NonMeasuringKeepsOffset ==
    [][(/\ pc = "loop"
        /\ idx < Len(sequences)
        /\ ~oneshot
        /\ MeasuredEvents(heap, seqs[sequences[idx + 1]]) = {})
          => (pc' = "loop" /\ contrast_offset' = contrast_offset)]_vars

\* C5: from the call of chain on (while it runs, when it has returned or
\* raised, and after a shift_contrasts on the Sequence it returned) every
\* input Sequence holds the repetitions and the pulse, event_time, gradm,
\* adc_phase and adc_usage values it held when chain was called.
C5_InputsUnchanged ==
    (log # <<>> /\ log[1].name = "chain") => AllValues(heap, seqs) = snap

\* chain (oneshot false) returned for two or more inputs, the second one with
\* measured events that were shifted by a positive offset, and the returned
\* Sequence was then shifted by an offset other than 0
C5_Witness ==
    /\ pc = "done"
    /\ ~oneshot
    /\ Len(log) = 2
    /\ log[2].name = "chained.shift_contrasts"
    /\ log[2].arg # 0
    /\ Len(sequences) >= 2
    /\ MeasuredEvents(heap, seqs[1]) # {}
    /\ MeasuredEvents(heap, seqs[2]) # {}
    /\ MeasuredEvents(heap, ret.val) # {}

----------------------------------------------------------------------------
(* Claims about clone, checked under SpecClone *)

\* the tensor addresses a Sequence refers to
Addresses(self) ==
    UNION {{self[r].event_time, self[r].gradm, self[r].adc_phase, self[r].adc_usage}
           \cup (IF self[r].pulse.angle.tensor THEN {self[r].pulse.angle.v} ELSE {})
           \cup (IF self[r].pulse.phase.tensor THEN {self[r].pulse.phase.v} ELSE {})
           : r \in 1..Len(self)}

\* C9: clone() of a Sequence built by Repetition(...) and new_rep succeeds and
\* returns as many repetitions with equal pulse and timeline values, sharing
\* no tensor with the original; a shift_contrasts on the clone then leaves
\* the original as it was, and one on the original leaves the clone.
C9_CloneIsDeepCopy ==
    (log # <<>> /\ log[1].name = "clone") =>
        /\ ret.ok
        /\ Addresses(ret.val) \cap Addresses(seqs[log[1].arg]) = {}
        /\ Len(log) = 1 => SeqValue(heap, ret.val) = snap[log[1].arg]
        /\ (Len(log) = 2 /\ log[2].name = "clone.shift_contrasts")
              => AllValues(heap, seqs) = snap
        /\ (Len(log) = 2 /\ log[2].name = "original.shift_contrasts")
              => SeqValue(heap, ret.val) = snap[log[1].arg]

----------------------------------------------------------------------------
(* The reference specification: pulses and gradients vary, no event is      *)
(* measured; the trajectory is compared with the reference fold             *)

BuildFold ==
    \E n \in 1..(MaxFoldEvents - TotalEvents), usage \in PulseUsage :
        \E events \in [1..n -> Deltas] :
            AppendRepetition(1, usage, events, [j \in 1..n |-> 0])

NextFold ==
    \/ BuildFold
    \/ CallGetFullKspace

SpecFold == Init /\ [][NextFold]_vars

\* component c (1..3 gradient moment, 4 duration) of event k of a repetition
DeltaComponent(h, rep, k, c) ==
    IF c = 4 THEN h[rep.event_time][k] ELSE h[rep.gradm][k][c]

RECURSIVE RunningSum(_, _, _, _)
\* component c of the sum of the deltas of events 1..j
RunningSum(h, rep, j, c) ==
    IF j = 0 THEN 0 ELSE RunningSum(h, rep, j - 1, c) + DeltaComponent(h, rep, j, c)

\* the position a repetition starts from: the pulse usage applied to the
\* carried-in state
RefStart(usage, k_pos, stored) ==
    IF usage = "EXCIT" THEN stored
    ELSE IF usage = "REFOC" THEN [c \in 1..4 |-> 0 - k_pos[c]]
    ELSE k_pos

\* the state carried out of a repetition starting at start
RefStored(usage, k_pos, stored) == IF usage = "STORE" THEN k_pos ELSE stored

\* entry j of the reference trajectory of a repetition starting at start
RefEntry(h, rep, start, j) == [c \in 1..4 |-> start[c] + RunningSum(h, rep, j, c)]

RECURSIVE IsReferenceFrom(_, _, _, _, _, _)
\* trajectories i.. of result are the reference for repetitions i.. of self,
\* entered with the state (k_pos, stored)
IsReferenceFrom(h, self, result, i, k_pos, stored) ==
    IF i > Len(self) THEN TRUE
    ELSE LET rep == self[i]
             start == RefStart(rep.pulse.usage, k_pos, stored)
         IN /\ Len(result[i]) = rep.event_count
            /\ \A j \in 1..rep.event_count :
                  result[i][j] = RefEntry(h, rep, start, j)
            /\ IsReferenceFrom(h, self, result, i + 1,
                               RefEntry(h, rep, start, rep.event_count),
                               RefStored(rep.pulse.usage, k_pos, stored))

\* result is the reference trajectory of the Sequence self in heap h
IsReferenceTrajectory(h, self, result) ==
    /\ result.ok
    /\ Len(result.val) = Len(self)
    /\ IsReferenceFrom(h, self, result.val, 1, <<0, 0, 0, 0>>, <<0, 0, 0, 0>>)

\* C11 as stated: every get_full_kspace() call returns the reference fold
\* (pulse usage applied to the carried-in state, then k_pos plus the inclusive
\* running sums, then k_pos := the last entry), one trajectory per repetition
\* and one entry per event, and changes no field of the Sequence.
C11_EqualsReferenceFold ==
    [][(log' # <<>> /\ log'[1].name = "get_full_kspace") =>
          /\ IsReferenceTrajectory(heap', seqs'[1], ret')
          /\ heap' = heap /\ seqs' = seqs]_vars

\* C11 as amended: the same for every Sequence with at least one repetition
\* (on an empty Sequence get_full_kspace() raises IndexError at self[0]).
C11_EqualsReferenceFoldNonEmpty ==
    [][(log' # <<>> /\ log'[1].name = "get_full_kspace" /\ seqs'[1] # <<>>) =>
          /\ IsReferenceTrajectory(heap', seqs'[1], ret')
          /\ heap' = heap /\ seqs' = seqs]_vars

\* get_full_kspace() returned for [rep0, rep1 (STORE), rep2 (EXCIT)]: the
\* STORE snapshots a carried-in position other than zero and the EXCIT
\* restores it, so rep2 starts where rep1 started and not where rep1 ended
C11_Witness ==
    /\ Called("get_full_kspace")
    /\ ret.ok
    /\ Len(Self) = 3
    /\ Self[2].pulse.usage = "STORE"
    /\ Self[3].pulse.usage = "EXCIT"
    /\ ret.val[1][1] # <<0, 0, 0, 0>>
    /\ ret.val[3] = ret.val[2]

----------------------------------------------------------------------------
(* The building specification: repetitions are constructed from timelines   *)
(* of any lengths, or asked of new_rep with any event count, and every call *)
(* is logged with its outcome                                               *)

\* how the shape of a timeline departs from event_time's: gradm rows, gradm
\* columns, adc_phase, adc_usage
Deviations ==
    {<<0, 0, 0, 0>>, <<1, 0, 0, 0>>, <<0, 1, 0, 0>>, <<0, 0, 1, 0>>, <<0, 0, 0, 1>>}

\* the shapes of the four timelines handed to the constructor
Shapes ==
    {[event_time |-> n, gradm |-> <<n + d[1], 3 - d[2]>>,
      adc_phase |-> n + d[3], adc_usage |-> n + d[4]] :
        n \in 0..MaxBuildEvents, d \in Deviations}

\* a call with its outcome, added to the log
Logged(name, arg, result) == Append(log, [name |-> name, arg |-> arg, raised |-> ~result.ok])

\* self.append(Repetition(pulse, event_time, gradm, adc_phase, adc_usage))
\* on zero tensors of the shapes sh; nothing is appended when the constructor
\* raises
ConstructRepetition ==
    /\ pc = "idle"
    /\ Len(log) < MaxBuildCalls
    /\ \E sh \in Shapes :
          \E h2 \in {AllocTimelines(heap \o << <<0>>, <<0>> >>,
                                    [j \in 1..sh.event_time |-> 0],
                                    [j \in 1..sh.gradm[1] |-> [c \in 1..sh.gradm[2] |-> 0]],
                                    [j \in 1..sh.adc_phase |-> 0],
                                    [j \in 1..sh.adc_usage |-> 0])} :
             \E r \in {RepetitionInit(h2, Pulse("UNDEF", Tensor(Len(heap) + 1),
                                                Tensor(Len(heap) + 2), TRUE),
                                      Len(heap) + 3, Len(heap) + 4,
                                      Len(heap) + 5, Len(heap) + 6)} :
                /\ IF r.ok
                   THEN /\ heap' = h2
                        /\ seqs' = [seqs EXCEPT ![1] = Append(@, r.val)]
                        /\ ret' = Return(<<>>)
                   ELSE /\ UNCHANGED <<heap, seqs>>
                        /\ ret' = r
                /\ log' = Logged("Repetition", sh, r)
    /\ UNCHANGED <<snap, chainVars>>

\* self.new_rep(event_count) for any event count, negative ones included
NewRep ==
    /\ pc = "idle"
    /\ Len(log) < MaxBuildCalls
    /\ \E event_count \in (0 - 1)..MaxBuildEvents :
          \E r \in {SequenceNewRep(heap, seqs[1], event_count)} :
             /\ IF r.ok
                THEN /\ heap' = r.val.heap
                     /\ seqs' = [seqs EXCEPT ![1] = r.val.seq]
                     /\ ret' = Return(<<>>)
                ELSE /\ UNCHANGED <<heap, seqs>>
                     /\ ret' = r
             /\ log' = Logged("new_rep", event_count, r)
    /\ UNCHANGED <<snap, chainVars>>

NextBuild ==
    \/ ConstructRepetition
    \/ NewRep

SpecBuild == Init /\ [][NextBuild]_vars

\* the number of events call k asked for
AskedEvents(k) ==
    IF log[k].name = "new_rep" THEN log[k].arg ELSE log[k].arg.event_time

\* call k was given what the constructor requires: at least one event and
\* timelines of that many entries, gradm with three columns
AskedValid(k) ==
    IF log[k].name = "new_rep" THEN log[k].arg >= 1
    ELSE /\ log[k].arg.event_time >= 1
         /\ log[k].arg.gradm = <<log[k].arg.event_time, 3>>
         /\ log[k].arg.adc_phase = log[k].arg.event_time
         /\ log[k].arg.adc_usage = log[k].arg.event_time

\* the calls among the first k that returned
Returned(k) == {m \in 1..k : ~log[m].raised}

\* the call that appended repetition i
CallOf(i) == CHOOSE k \in Returned(Len(log)) : Cardinality(Returned(k)) = i

\* all four timelines of rep have n entries, gradm n rows of three
WellShaped(h, rep, n) ==
    /\ rep.event_count = n
    /\ Len(h[rep.event_time]) = n
    /\ Len(h[rep.gradm]) = n
    /\ \A j \in 1..n : Len(h[rep.gradm][j]) = 3
    /\ Len(h[rep.adc_phase]) = n
    /\ Len(h[rep.adc_usage]) = n

====
